---- MODULE Spec2Model ----
(***************************************************************************)
(* Model of core/bin/zksync_api/src/api_server/rest/network_status.rs:     *)
(* the shared NetworkStatus cell (SharedNetworkStatus), its readers and    *)
(* the "rest-state-updater" refresh loop that fetches five counters from   *)
(* the storage and publishes them under the cell's RwLock.                 *)
(***************************************************************************)
EXTENDS Integers, Sequences, FiniteSets, TLC

\* ------------------------------------------------------------------ bounds
MaxBlock == 1
MaxCount == 1
MaxReaders == 1
MaxUpdaters == 2
MaxVer == 1

Updaters == 1..MaxUpdaters
Readers == 1..MaxReaders

\* ------------------------------------------------------- values and types
\* Result<T, E>: Err is -1, Ok(v) is v (every T here is unsigned).
Err == -1
\* Option<u64>: None is -1, Some(v) is v.
None == -1
\* No task holds the write guard.
NoOne == 0

UnwrapOr(res, dflt) == IF res = Err THEN dflt ELSE res

\* #[derive(Default)] NetworkStatus: Option defaults to None, numbers to 0.
DefaultStatus ==
  [next_block_at_max |-> None,
   last_committed |-> 0,
   last_verified |-> 0,
   total_transactions |-> 0,
   outstanding_txs |-> 0,
   mempool_size |-> 0]

\* The locals of update before any query has run (not yet assigned).
NoLocals ==
  [last_verified |-> 0,
   last_committed |-> 0,
   total_transactions |-> 0,
   mempool_size |-> 0,
   outstanding_txs |-> 0]

\* A sub-query that has not returned (or was never issued).
NotRun == -2

\* What each sub-query of an update returned, before any has run.
NoReturns ==
  [last_verified |-> NotRun,
   last_committed |-> NotRun,
   total_transactions |-> NotRun,
   mempool_size |-> NotRun,
   outstanding_txs |-> NotRun]

Fields ==
  {"last_verified", "last_committed", "total_transactions", "mempool_size",
   "outstanding_txs"}

\* The points of update that talk to the storage and can fail.
FaultPoints ==
  {"access_storage", "start_transaction", "last_verified", "last_committed",
   "total_transactions", "mempool_size", "outstanding_txs", "commit",
   "runtime"}

VARIABLES
  scn,            \* the scenario: start calls made, what the storage can do
  status,         \* the NetworkStatus inside the RwLock
  wguard,         \* the updater holding the write guard, or NoOne
  rguards,        \* the readers holding a read guard
  waiters,        \* FIFO queue of the tasks waiting for the lock
  pc,             \* per updater thread: where it is
  loc,            \* per updater: the locals of update
  ret,            \* per updater: what each sub-query of this update returned
  commitRes,      \* per updater: what transaction.commit() returned
  uow,            \* per updater: "none", "storage" (connection), "transaction"
  updRet,         \* per updater: what the last update call returned
  notified,       \* messages sent on the panic_notify channel
  rpc,            \* per reader: where it is in read()
  buf,            \* per reader: the part of the clone made so far
  result,         \* per reader: <<value>> returned by its last read(), <<>> if none
  snap,           \* per reader: the published snapshot when it got the read guard
  seen,           \* per reader: version of the snapshot of its last read()
  snapReturns,    \* per reader: the sub-query returns behind that snapshot
  ver,            \* number of snapshots published so far (saturates at MaxVer)
  lastPublished,  \* the last snapshot published as a whole (or the default)
  lastReturns,    \* what the sub-queries of the update that published it returned
  dbCommitted,    \* storage: last committed block
  dbVerified      \* storage: last verified confirmed block

lockVars == <<status, wguard, rguards, waiters>>
updVars == <<pc, loc, ret, commitRes, uow, updRet, notified>>
readVars == <<rpc, buf, result, snap, snapReturns, seen>>
histVars == <<ver, lastPublished, lastReturns>>
dbVars == <<dbCommitted, dbVerified>>
vars == <<scn, lockVars, updVars, readVars, histVars, dbVars>>

\* ------------------------------------------------------------- scenarios
\* The refresh loop against a storage where every call can fail.
FetchScenario ==
  [loops |-> 1,
   totals |-> {MaxCount + 1},
   mempools |-> {MaxCount},
   faults |-> FaultPoints]

\* The API server: one refresh loop, request handlers reading.
ServingScenario ==
  [loops |-> 1,
   totals |-> {MaxCount + 1},
   mempools |-> {MaxCount},
   faults |-> {"runtime", "access_storage", "start_transaction", "last_committed"}]

\* start_updater_detached called on every clone of the handle there is.
StartsScenario ==
  [loops |-> MaxUpdaters,
   totals |-> {MaxCount + 1},
   mempools |-> {MaxCount},
   faults |-> {"access_storage"}]

\* ------------------------------------------------------------- the storage
\* StatsSchema::count_outstanding_proofs(after_block): operations in blocks
\* after after_block that are committed but not yet proven.
CountOutstandingProofs(after_block) ==
  IF dbCommitted > after_block THEN dbCommitted - after_block ELSE 0

\* The outcomes a storage call at fault point p can have: Err when the
\* scenario lets it fail, or one of the values vals.
Outcomes(p, vals) == (IF p \in scn.faults THEN {Err} ELSE {}) \cup vals

DsCommitBlock ==
  /\ dbCommitted < MaxBlock
  /\ dbCommitted' = dbCommitted + 1
  /\ UNCHANGED <<scn, lockVars, updVars, readVars, histVars, dbVerified>>

DsVerifyBlock ==
  /\ dbVerified < dbCommitted
  /\ dbVerified' = dbVerified + 1
  /\ UNCHANGED <<scn, lockVars, updVars, readVars, histVars, dbCommitted>>

\* ---------------------------------------------------------------- RwLock
\* tokio::sync::RwLock is fair: tasks get the lock in the order they asked.
\* Variant: a read guard is handed out while the write guard is held.
ReadGrantedDuringWrite(r) ==
  /\ waiters # <<>>
  /\ Head(waiters) = <<"r", r>>

ReadGranted(r) ==
  /\ waiters # <<>>
  /\ Head(waiters) = <<"r", r>>
  /\ wguard = NoOne

\* Variant: the write guard is handed out while read guards are held.
WriteGrantedDuringReads(u) ==
  /\ waiters # <<>>
  /\ Head(waiters) = <<"w", u>>
  /\ wguard = NoOne

WriteGranted(u) ==
  /\ waiters # <<>>
  /\ Head(waiters) = <<"w", u>>
  /\ wguard = NoOne
  /\ rguards = {}

\* The clone and the assignment move the value in two parts.
\* Variant: the second part is not moved.
WithoutSecondPart(s, new) == s

WithFirstPart(s, new) ==
  [s EXCEPT !.next_block_at_max = new.next_block_at_max,
            !.last_committed = new.last_committed,
            !.last_verified = new.last_verified]

WithSecondPart(s, new) ==
  [s EXCEPT !.total_transactions = new.total_transactions,
            !.outstanding_txs = new.outstanding_txs,
            !.mempool_size = new.mempool_size]

\* ------------------------------------------------------------------ read
\* Variant: a new read request goes to the front of the lock's queue.
ReadBeginBarging(r) ==
  /\ rpc[r] = "idle"
  /\ rpc' = [rpc EXCEPT ![r] = "wait"]
  /\ waiters' = <<<<"r", r>>>> \o waiters
  /\ UNCHANGED <<scn, status, wguard, rguards, updVars, buf, result, snap, seen,
                 snapReturns, histVars, dbVars>>

ReadBegin(r) ==
  /\ rpc[r] = "idle"
  /\ rpc' = [rpc EXCEPT ![r] = "wait"]
  /\ waiters' = Append(waiters, <<"r", r>>)
  /\ UNCHANGED <<scn, status, wguard, rguards, updVars, buf, result, snap, seen,
                 snapReturns, histVars, dbVars>>

ReadAcquire(r) ==
  /\ rpc[r] = "wait"
  /\ ReadGranted(r)
  /\ waiters' = Tail(waiters)
  /\ rguards' = rguards \cup {r}
  /\ buf' = [buf EXCEPT ![r] = WithFirstPart(DefaultStatus, status)]
  /\ snap' = [snap EXCEPT ![r] = lastPublished]
  /\ seen' = [seen EXCEPT ![r] = ver]
  /\ snapReturns' = [snapReturns EXCEPT ![r] = lastReturns]
  /\ rpc' = [rpc EXCEPT ![r] = "clone"]
  /\ UNCHANGED <<scn, status, wguard, updVars, result, histVars, dbVars>>

\* Variant: read() takes the value out of the cell, leaving the default.
ReadReturnTaking(r) ==
  /\ rpc[r] = "clone"
  /\ result' = [result EXCEPT ![r] = <<WithSecondPart(buf[r], status)>>]
  /\ status' = DefaultStatus
  /\ buf' = [buf EXCEPT ![r] = DefaultStatus]
  /\ rguards' = rguards \ {r}
  /\ rpc' = [rpc EXCEPT ![r] = "idle"]
  /\ UNCHANGED <<scn, wguard, waiters, updVars, snap, snapReturns, seen,
                 histVars, dbVars>>

ReadReturn(r) ==
  /\ rpc[r] = "clone"
  /\ result' = [result EXCEPT ![r] = <<WithSecondPart(buf[r], status)>>]
  /\ buf' = [buf EXCEPT ![r] = DefaultStatus]
  /\ rguards' = rguards \ {r}
  /\ rpc' = [rpc EXCEPT ![r] = "idle"]
  /\ UNCHANGED <<scn, status, wguard, waiters, updVars, snap, snapReturns, seen,
                 histVars, dbVars>>

read(r) == ReadBegin(r) \/ ReadAcquire(r) \/ ReadReturn(r)

\* ---------------------------------------------------------------- update
\* Variant: last_committed is filled from outstanding_txs.
NewStatusMixed(l) ==
  [next_block_at_max |-> None,
   last_committed |-> l.outstanding_txs,
   last_verified |-> l.last_verified,
   total_transactions |-> l.total_transactions,
   outstanding_txs |-> l.outstanding_txs,
   mempool_size |-> l.mempool_size]

\* Variant: last_committed and last_verified change places.
NewStatusSwapped(l) ==
  [next_block_at_max |-> None,
   last_committed |-> l.last_verified,
   last_verified |-> l.last_committed,
   total_transactions |-> l.total_transactions,
   outstanding_txs |-> l.outstanding_txs,
   mempool_size |-> l.mempool_size]

\* Variant: next_block_at_max is filled with an estimate.
NewStatusWithDeadline(l) ==
  [next_block_at_max |-> l.last_committed + 1,
   last_committed |-> l.last_committed,
   last_verified |-> l.last_verified,
   total_transactions |-> l.total_transactions,
   outstanding_txs |-> l.outstanding_txs,
   mempool_size |-> l.mempool_size]

\* let status = NetworkStatus { next_block_at_max: None, ... }
NewStatus(l) ==
  [next_block_at_max |-> None,
   last_committed |-> l.last_committed,
   last_verified |-> l.last_verified,
   total_transactions |-> l.total_transactions,
   outstanding_txs |-> l.outstanding_txs,
   mempool_size |-> l.mempool_size]

\* Variant: an error of update ends the loop instead of being logged.
ReturnBreakingLoop(u, value) ==
  /\ updRet' = [updRet EXCEPT ![u] = value]
  /\ uow' = [uow EXCEPT ![u] = "none"]
  /\ loc' = [loc EXCEPT ![u] = NoLocals]
  /\ pc' = [pc EXCEPT ![u] = IF value = "err" THEN "stopped" ELSE "tick"]

\* Variant: returning leaves the connection or transaction of the call open.
ReturnLeaking(u, value) ==
  /\ updRet' = [updRet EXCEPT ![u] = value]
  /\ UNCHANGED uow
  /\ loc' = [loc EXCEPT ![u] = NoLocals]
  /\ pc' = [pc EXCEPT ![u] = "tick"]

\* update returns: the `?` of a failed storage call, or Ok(()) at the end.
\* The locals, the transaction and the connection are dropped.
Return(u, value) ==
  /\ updRet' = [updRet EXCEPT ![u] = value]
  /\ uow' = [uow EXCEPT ![u] = "none"]
  /\ loc' = [loc EXCEPT ![u] = NoLocals]
  /\ pc' = [pc EXCEPT ![u] = "tick"]

\* Variant: update takes the write guard first and fetches under it.
TickLockingFirst(u) ==
  /\ pc[u] = "tick"
  /\ pc' = [pc EXCEPT ![u] = "access_storage"]
  /\ ret' = [ret EXCEPT ![u] = NoReturns]
  /\ commitRes' = [commitRes EXCEPT ![u] = "none"]
  /\ updRet' = [updRet EXCEPT ![u] = "none"]
  /\ waiters' = Append(waiters, <<"w", u>>)
  /\ UNCHANGED <<scn, status, wguard, rguards, loc, uow, notified, readVars,
                 histVars, dbVars>>

\* Variant: the tick also fires while the update waits for the write guard,
\* and a new invocation is started beside it.
TickSpawning(u) ==
  /\ pc[u] \in {"tick", "write"}
  /\ pc' = [pc EXCEPT ![u] = "access_storage"]
  /\ ret' = [ret EXCEPT ![u] = NoReturns]
  /\ commitRes' = [commitRes EXCEPT ![u] = "none"]
  /\ updRet' = [updRet EXCEPT ![u] = "none"]
  /\ UNCHANGED <<scn, lockVars, loc, uow, notified, readVars, histVars, dbVars>>

\* timer.tick().await completes and the loop calls self.update(..).
Tick(u) ==
  /\ pc[u] = "tick"
  /\ pc' = [pc EXCEPT ![u] = "access_storage"]
  /\ ret' = [ret EXCEPT ![u] = NoReturns]
  /\ commitRes' = [commitRes EXCEPT ![u] = "none"]
  /\ updRet' = [updRet EXCEPT ![u] = "none"]
  /\ UNCHANGED <<scn, lockVars, loc, uow, notified, readVars, histVars, dbVars>>

\* Variant: a failed access_storage resets the cell before returning.
AccessStorageResetting(u) ==
  /\ pc[u] = "access_storage"
  /\ \E res \in Outcomes("access_storage", {0}) :
       IF res = Err
         THEN /\ Return(u, "err")
              /\ status' = DefaultStatus
         ELSE /\ uow' = [uow EXCEPT ![u] = "storage"]
              /\ pc' = [pc EXCEPT ![u] = "start_transaction"]
              /\ UNCHANGED <<loc, updRet, status>>
  /\ UNCHANGED <<scn, wguard, rguards, waiters, ret, commitRes, notified,
                 readVars, histVars, dbVars>>

\* Variant: a failed access_storage is reported on panic_notify.
AccessStorageEscalating(u) ==
  /\ pc[u] = "access_storage"
  /\ \E res \in Outcomes("access_storage", {0}) :
       IF res = Err
         THEN /\ Return(u, "err")
              /\ notified' = notified + 1
         ELSE /\ uow' = [uow EXCEPT ![u] = "storage"]
              /\ pc' = [pc EXCEPT ![u] = "start_transaction"]
              /\ UNCHANGED <<loc, updRet, notified>>
  /\ UNCHANGED <<scn, lockVars, ret, commitRes, readVars, histVars, dbVars>>

\* connection_pool.access_storage().await?
AccessStorage(u) ==
  /\ pc[u] = "access_storage"
  /\ \E res \in Outcomes("access_storage", {0}) :
       IF res = Err
         THEN Return(u, "err")
         ELSE /\ uow' = [uow EXCEPT ![u] = "storage"]
              /\ pc' = [pc EXCEPT ![u] = "start_transaction"]
              /\ UNCHANGED <<loc, updRet>>
  /\ UNCHANGED <<scn, lockVars, ret, commitRes, notified, readVars, histVars,
                 dbVars>>

\* storage.start_transaction().await?
StartTransaction(u) ==
  /\ pc[u] = "start_transaction"
  /\ \E res \in Outcomes("start_transaction", {0}) :
       IF res = Err
         THEN Return(u, "err")
         ELSE /\ uow' = [uow EXCEPT ![u] = "transaction"]
              /\ pc' = [pc EXCEPT ![u] = "last_verified"]
              /\ UNCHANGED <<loc, updRet>>
  /\ UNCHANGED <<scn, lockVars, ret, commitRes, notified, readVars, histVars,
                 dbVars>>

\* Variant: a failed sub-query is propagated with `?`.
QueryAborting(u, field, values, next) ==
  /\ pc[u] = field
  /\ \E res \in Outcomes(field, values) :
       /\ ret' = [ret EXCEPT ![u][field] = res]
       /\ IF res = Err
            THEN Return(u, "err")
            ELSE /\ loc' = [loc EXCEPT ![u][field] = res]
                 /\ pc' = [pc EXCEPT ![u] = next]
                 /\ UNCHANGED <<uow, updRet>>
  /\ UNCHANGED <<scn, lockVars, commitRes, notified, readVars, histVars, dbVars>>

\* Variant: a failed sub-query keeps the field of the snapshot in the cell.
QueryKeepingPrevious(u, field, values, next) ==
  /\ pc[u] = field
  /\ \E res \in Outcomes(field, values) :
       /\ ret' = [ret EXCEPT ![u][field] = res]
       /\ loc' = [loc EXCEPT ![u][field] =
                    IF res = Err THEN status[field] ELSE res]
  /\ pc' = [pc EXCEPT ![u] = next]
  /\ UNCHANGED <<scn, lockVars, commitRes, uow, updRet, notified, readVars,
                 histVars, dbVars>>

\* One sub-query: let <field> = transaction...<query>.await.unwrap_or(0);
Query(u, field, values, next) ==
  /\ pc[u] = field
  /\ \E res \in Outcomes(field, values) :
       /\ ret' = [ret EXCEPT ![u][field] = res]
       /\ loc' = [loc EXCEPT ![u][field] = UnwrapOr(res, 0)]
  /\ pc' = [pc EXCEPT ![u] = next]
  /\ UNCHANGED <<scn, lockVars, commitRes, uow, updRet, notified, readVars,
                 histVars, dbVars>>

GetLastVerifiedConfirmedBlock(u) ==
  Query(u, "last_verified", {dbVerified}, "last_committed")

GetLastCommittedBlock(u) ==
  Query(u, "last_committed", {dbCommitted}, "total_transactions")

CountTotalTransactions(u) ==
  Query(u, "total_transactions", scn.totals, "mempool_size")

GetMempoolSize(u) ==
  Query(u, "mempool_size", scn.mempools, "outstanding_txs")

\* Variant: the outstanding proofs are counted after last_committed.
CountOutstandingAfterCommitted(u) ==
  Query(u, "outstanding_txs", {CountOutstandingProofs(loc[u].last_committed)},
        "commit")

CountOutstanding(u) ==
  Query(u, "outstanding_txs", {CountOutstandingProofs(loc[u].last_verified)},
        "commit")

\* Variant: a failed commit is propagated with `?`.
CommitPropagating(u) ==
  /\ pc[u] = "commit"
  /\ \E res \in Outcomes("commit", {0}) :
       /\ commitRes' = [commitRes EXCEPT ![u] = IF res = Err THEN "err" ELSE "ok"]
       /\ IF res = Err
            THEN /\ Return(u, "err")
                 /\ UNCHANGED waiters
            ELSE /\ uow' = [uow EXCEPT ![u] = "storage"]
                 /\ waiters' = Append(waiters, <<"w", u>>)
                 /\ pc' = [pc EXCEPT ![u] = "write"]
                 /\ UNCHANGED <<loc, updRet>>
  /\ UNCHANGED <<scn, status, wguard, rguards, ret, notified, readVars,
                 histVars, dbVars>>

\* transaction.commit().await.unwrap_or_default(); then write() is called
\* and the task queues for the lock.
Commit(u) ==
  /\ pc[u] = "commit"
  /\ \E res \in Outcomes("commit", {0}) :
       commitRes' = [commitRes EXCEPT ![u] = IF res = Err THEN "err" ELSE "ok"]
  /\ uow' = [uow EXCEPT ![u] = "storage"]
  /\ waiters' = Append(waiters, <<"w", u>>)
  /\ pc' = [pc EXCEPT ![u] = "write"]
  /\ UNCHANGED <<scn, status, wguard, rguards, loc, ret, updRet, notified,
                 readVars, histVars, dbVars>>

\* *self.0.as_ref().write().await = status: the guard is granted and the
\* first part of the value is moved in.
WriteAcquire(u) ==
  /\ pc[u] = "write"
  /\ WriteGranted(u)
  /\ waiters' = Tail(waiters)
  /\ wguard' = u
  /\ status' = WithFirstPart(status, NewStatus(loc[u]))
  /\ pc' = [pc EXCEPT ![u] = "assign"]
  /\ UNCHANGED <<scn, rguards, loc, ret, commitRes, uow, updRet, notified,
                 readVars, histVars, dbVars>>

\* The rest of the value is moved in, the guard is dropped, Ok(()).
WriteRelease(u) ==
  /\ pc[u] = "assign"
  /\ status' = WithSecondPart(status, NewStatus(loc[u]))
  /\ wguard' = NoOne
  /\ lastPublished' = NewStatus(loc[u])
  /\ ver' = IF ver < MaxVer THEN ver + 1 ELSE ver
  /\ lastReturns' = ret[u]
  /\ Return(u, "ok")
  /\ UNCHANGED <<scn, rguards, waiters, ret, commitRes, notified, readVars,
                 dbVars>>

update(u) ==
  \/ AccessStorage(u)
  \/ StartTransaction(u)
  \/ GetLastVerifiedConfirmedBlock(u)
  \/ GetLastCommittedBlock(u)
  \/ CountTotalTransactions(u)
  \/ GetMempoolSize(u)
  \/ CountOutstanding(u)
  \/ Commit(u)
  \/ WriteAcquire(u)
  \/ WriteRelease(u)

\* ------------------------------------------------- start_updater_detached
Started == {u \in Updaters : pc[u] # "unstarted"}

\* std::thread::Builder::new().name(..).spawn(..): the thread exists and
\* holds its ThreadPanicNotify sentinel.
StartUpdaterDetached(u) ==
  /\ pc[u] = "unstarted"
  /\ Cardinality(Started) < scn.loops
  /\ u = Cardinality(Started) + 1
  /\ pc' = [pc EXCEPT ![u] = "runtime"]
  /\ UNCHANGED <<scn, lockVars, loc, ret, commitRes, uow, updRet, notified,
                 readVars, histVars, dbVars>>

\* ThreadPanicNotify (zksync_utils::panic_notify): the messages its drop
\* sends on the channel, one when the thread is unwinding from a panic.
SentinelDrop(panicking) == IF panicking THEN 1 ELSE 0

\* Runtime::new().expect("tokio runtime creation"): on Err the thread
\* panics and _panic_sentinel is dropped while unwinding; otherwise
\* block_on(state_update_task) enters the loop.
RuntimeNew(u) ==
  /\ pc[u] = "runtime"
  /\ \E res \in Outcomes("runtime", {0}) :
       IF res = Err
         THEN /\ pc' = [pc EXCEPT ![u] = "panicked"]
              /\ notified' = notified + SentinelDrop(TRUE)
         ELSE /\ pc' = [pc EXCEPT ![u] = "tick"]
              /\ UNCHANGED notified
  /\ UNCHANGED <<scn, lockVars, loc, ret, commitRes, uow, updRet, readVars,
                 histVars, dbVars>>

start_updater_detached(u) ==
  \/ StartUpdaterDetached(u)
  \/ RuntimeNew(u)
  \/ Tick(u)
  \/ update(u)

\* ------------------------------------------------------- specifications
InitWith(scenario) ==
  /\ scn = scenario
  /\ status = DefaultStatus
  /\ wguard = NoOne
  /\ rguards = {}
  /\ waiters = <<>>
  /\ pc = [u \in Updaters |-> "unstarted"]
  /\ loc = [u \in Updaters |-> NoLocals]
  /\ ret = [u \in Updaters |-> NoReturns]
  /\ commitRes = [u \in Updaters |-> "none"]
  /\ uow = [u \in Updaters |-> "none"]
  /\ updRet = [u \in Updaters |-> "none"]
  /\ notified = 0
  /\ rpc = [r \in Readers |-> "idle"]
  /\ buf = [r \in Readers |-> DefaultStatus]
  /\ result = [r \in Readers |-> <<>>]
  /\ snap = [r \in Readers |-> DefaultStatus]
  /\ seen = [r \in Readers |-> 0]
  /\ snapReturns = [r \in Readers |-> NoReturns]
  /\ ver = 0
  /\ lastPublished = DefaultStatus
  /\ lastReturns = NoReturns
  /\ dbCommitted = 0
  /\ dbVerified = 0

\* The API server: one refresh loop and the readers.
Init == InitWith(ServingScenario)

Next ==
  \/ \E u \in Updaters : start_updater_detached(u)
  \/ \E r \in Readers : read(r)
  \/ DsCommitBlock
  \/ DsVerifyBlock

Spec == Init /\ [][Next]_vars

\* The refresh loop alone, every storage call fallible.
InitFetch == InitWith(FetchScenario)

NextFetch ==
  \/ \E u \in Updaters : start_updater_detached(u)
  \/ DsCommitBlock
  \/ DsVerifyBlock

SpecFetch == InitFetch /\ [][NextFetch]_vars

\* The refresh loop alone as the API server runs it. The interval timer
\* fires every 30 s, so a loop waiting for its tick gets it.
SpecLoopLive ==
  Init /\ [][NextFetch]_vars /\ \A u \in Updaters : WF_vars(Tick(u))

\* Several refresh loops started on clones of one handle, no readers.
InitStarts == InitWith(StartsScenario)

SpecStarts == InitStarts /\ [][NextFetch]_vars

\* The API server with its scheduling, over a storage that stands still
\* (what the counters are plays no part in it): every storage call returns, the
\* lock hands the guard to the head of its queue, the assignment and the
\* clone run to their end and the guards are dropped. Nothing makes a
\* request handler call read(), and nothing stops it from calling again.
NextServe ==
  \/ \E u \in Updaters : start_updater_detached(u)
  \/ \E r \in Readers : read(r)

SpecPublishLive ==
  /\ Init
  /\ [][NextServe]_vars
  /\ \A u \in Updaters : WF_vars(update(u))
  /\ \A r \in Readers : WF_vars(ReadAcquire(r)) /\ WF_vars(ReadReturn(r))

\* =================================================================== claims
Failed(returns) == {f \in Fields : returns[f] = Err}
Succeeded(returns) == {f \in Fields : returns[f] >= 0}

\* The snapshot assembled from what the sub-queries returned: 0 for a failed
\* one, the returned value otherwise, next_block_at_max absent.
Expected(returns) ==
  [next_block_at_max |-> -1,
   last_committed |->
     IF returns.last_committed = Err THEN 0 ELSE returns.last_committed,
   last_verified |->
     IF returns.last_verified = Err THEN 0 ELSE returns.last_verified,
   total_transactions |->
     IF returns.total_transactions = Err THEN 0 ELSE returns.total_transactions,
   outstanding_txs |->
     IF returns.outstanding_txs = Err THEN 0 ELSE returns.outstanding_txs,
   mempool_size |->
     IF returns.mempool_size = Err THEN 0 ELSE returns.mempool_size]

\* A reader whose last read() has returned and is not being superseded:
\* snap, snapReturns and seen describe the value in result.
Returned(r) == rpc[r] # "clone" /\ result[r] # <<>>

\* C1: whatever the interleaving of the writes of update with read() calls,
\* a read() returns the default or one snapshot that was published as a
\* whole (the one in place when it took the read guard), never a value with
\* fields of two snapshots.
C1_ReadIsOneSnapshot ==
  \A r \in Readers : Returned(r) => result[r][1] = snap[r]

\* A read() returned a published snapshot, which the loop has since
\* replaced by a different one, and the reader is waiting to read again
\* behind the write of yet another update.
C1_Witness ==
  \E r \in Readers :
    /\ Returned(r)
    /\ result[r][1] # DefaultStatus
    /\ result[r][1] # lastPublished
    /\ rpc[r] = "wait"
    /\ \E u \in Updaters : pc[u] = "assign"

\* C2: as long as no update has published (the first fetch in flight, or
\* only failed attempts so far), every read() returns the zero-valued
\* default with next_block_at_max absent.
C2_DefaultBeforeFirstPublish ==
  ver = 0 =>
    \A r \in Readers :
      result[r] # <<>> =>
        result[r][1] = [next_block_at_max |-> -1,
                        last_committed |-> 0,
                        last_verified |-> 0,
                        total_transactions |-> 0,
                        outstanding_txs |-> 0,
                        mempool_size |-> 0]

\* Nothing published yet, the first fetch is in flight (past its queries,
\* at the write) and a read() has returned.
C2_Witness ==
  /\ ver = 0
  /\ \E r \in Readers : Returned(r) /\ rpc[r] = "idle"
  /\ \E u \in Updaters : pc[u] \in {"write", "assign"}

\* C3: when the transaction was opened and exactly one of the five
\* sub-queries failed while the other four returned values, update returns
\* Ok and the cell holds a snapshot with 0 in the failed field and the
\* returned value in each of the other four, whichever one failed.
C3_OneFailedStillPublished ==
  \A u \in Updaters :
    (/\ pc[u] = "tick"
     /\ Cardinality(Failed(ret[u])) = 1
     /\ Cardinality(Succeeded(ret[u])) = 4)
    => /\ updRet[u] = "ok"
       /\ status = Expected(ret[u])
       /\ \A f \in Failed(ret[u]) : status[f] = 0

\* The mempool-size query failed, the other four returned values (one
\* committed block, none verified, one transaction, one outstanding proof),
\* and the update has returned.
C3_Witness ==
  \E u \in Updaters :
    /\ pc[u] = "tick"
    /\ Failed(ret[u]) = {"mempool_size"}
    /\ Succeeded(ret[u]) = Fields \ {"mempool_size"}
    /\ status.mempool_size = 0
    /\ status.last_committed > 0
    /\ status.total_transactions > 0
    /\ status.outstanding_txs > 0

\* C4: a read() that observes the snapshot published by an update whose
\* five sub-queries all succeeded returns exactly the five returned values
\* with next_block_at_max absent, whatever the cell held before.
C4_AllSucceededReadBack ==
  \A r \in Readers :
    (Returned(r) /\ Succeeded(snapReturns[r]) = Fields)
    => result[r][1] =
         [next_block_at_max |-> -1,
          last_committed |-> snapReturns[r].last_committed,
          last_verified |-> snapReturns[r].last_verified,
          total_transactions |-> snapReturns[r].total_transactions,
          outstanding_txs |-> snapReturns[r].outstanding_txs,
          mempool_size |-> snapReturns[r].mempool_size]

\* A read() of a published snapshot returned last_committed 1,
\* last_verified 0 and one outstanding proof, all from successful queries.
C4_Witness ==
  \E r \in Readers :
    /\ Returned(r)
    /\ Succeeded(snapReturns[r]) = Fields
    /\ seen[r] >= 1
    /\ result[r][1].last_committed = 1
    /\ result[r][1].last_verified = 0
    /\ result[r][1].outstanding_txs = 1

\* C5: while update is acquiring the connection or starting the
\* transaction the cell is not written, and when either fails update
\* returns an error with the cell as it was.
C5_OpenFailureLeavesStore ==
  [][\A u \in Updaters :
       (pc[u] \in {"tick", "access_storage", "start_transaction"}
        /\ pc'[u] # pc[u])
       => /\ status' = status
          /\ lastPublished' = lastPublished
          /\ (pc[u] # "tick" /\ pc'[u] = "tick" => updRet'[u] = "err")]_vars

\* An update failed to open its transaction after an earlier one had
\* published a non-default snapshot, which is still in the cell.
C5_Witness ==
  \E u \in Updaters :
    /\ updRet[u] = "err"
    /\ pc[u] = "tick"
    /\ ver >= 1
    /\ status # DefaultStatus
    /\ status = lastPublished

\* C6: an update that returns an error leaves the loop waiting for the next
\* tick, and on that tick update is invoked again: no failure stops the loop.
C6_FailureDoesNotStopLoop ==
  \A u \in Updaters :
    /\ [](updRet[u] = "err" => pc[u] = "tick")
    /\ (updRet[u] = "err") ~> (pc[u] = "access_storage")

\* An update failed after an earlier cycle had published; the loop is back
\* at the timer.
C6_Witness ==
  \E u \in Updaters :
    /\ updRet[u] = "err"
    /\ pc[u] = "tick"
    /\ uow[u] = "none"
    /\ ver >= 1

\* C7: the snapshots a reader's successive read() calls return never go
\* back in publish order: each read() returns the snapshot that was in place
\* when it held the guard, whose version is at least that of the reader's
\* previous read(); once it has seen a published snapshot it gets published
\* ones (with sub-query returns behind them), not the initial default.
C7_MonotoneReads ==
  [][\A r \in Readers :
       /\ seen'[r] >= seen[r]
       /\ (rpc[r] = "clone" /\ rpc'[r] = "idle")
          => /\ result'[r] = <<snap[r]>>
             /\ (seen[r] >= 1 => snapReturns[r] # NoReturns)]_vars

\* A reader that had one published snapshot is returning from a read()
\* with a later, different one.
C7_Witness ==
  \E r \in Readers :
    /\ rpc[r] = "clone"
    /\ result[r] # <<>>
    /\ result[r][1] # DefaultStatus
    /\ seen[r] >= 1
    /\ snap[r] # result[r][1]
    /\ snap[r] = lastPublished

\* C8 as stated: with non-decreasing storage counters, the last_committed
\* of a later read() is never below that of an earlier read() by the same
\* reader.
C8_Original ==
  [][\A r \in Readers :
       (result[r] # <<>> /\ result'[r] # <<>>)
       => result'[r][1].last_committed >= result[r][1].last_committed]_vars

\* C8 amended: with one refresh loop and non-decreasing storage counters,
\* the last_committed of a later read() is at least that of an earlier one
\* unless the update that published the later value had its last-committed
\* query fail, in which case it is the fallback 0.
C8_MonotoneUnlessFallback ==
  [][\A r \in Readers :
       (result[r] # <<>> /\ result'[r] # <<>>)
       => \/ result'[r][1].last_committed >= result[r][1].last_committed
          \/ /\ snapReturns'[r].last_committed = Err
             /\ result'[r][1].last_committed = 0]_vars

\* A reader holding a published snapshot with last_committed 0 is returning
\* from a read() of a later one with last_committed 1.
C8_Witness ==
  \E r \in Readers :
    /\ rpc[r] = "clone"
    /\ result[r] # <<>>
    /\ result[r][1].total_transactions > 0
    /\ result[r][1].last_committed = 0
    /\ buf[r].last_committed = 1
    /\ snapReturns[r].last_committed = 1

\* The states of update in which a storage call is pending.
StorageIO ==
  {"access_storage", "start_transaction", "last_verified", "last_committed",
   "total_transactions", "mempool_size", "outstanding_txs", "commit"}

Queued == {waiters[i] : i \in 1..Len(waiters)}

\* C9: the loop holds the write guard only for the assignment, and neither
\* holds nor waits for it while a storage call is pending; so when no update
\* is at its write, waiting readers are granted the lock.
C9_NoLockAcrossStorageIO ==
  /\ \A u \in Updaters :
       /\ wguard = u => pc[u] = "assign"
       /\ pc[u] \in StorageIO => wguard # u /\ <<"w", u>> \notin Queued
  /\ ((\A u \in Updaters : pc[u] \notin {"write", "assign"}) /\ waiters # <<>>)
     => \E r \in Readers : ReadGranted(r)

\* A read() is issued and granted while the update is in its last sub-query;
\* a snapshot had been published before.
C9_Witness ==
  \E r \in Readers, u \in Updaters :
    /\ pc[u] = "outstanding_txs"
    /\ rpc[r] = "wait"
    /\ ReadGranted(r)
    /\ ver >= 1

\* C10: when the sub-queries completed and the commit failed, update still
\* returns Ok with the snapshot assembled from what the sub-queries returned
\* in the cell, not the previous one.
C10_CommitFailureStillPublishes ==
  \A u \in Updaters :
    (pc[u] = "tick" /\ commitRes[u] = "err")
    => /\ updRet[u] = "ok"
       /\ status = Expected(ret[u])
       /\ lastPublished = status

\* The commit of an update failed; its snapshot, with the values the
\* queries returned, is in the cell.
C10_Witness ==
  \E u \in Updaters :
    /\ pc[u] = "tick"
    /\ commitRes[u] = "err"
    /\ Succeeded(ret[u]) = Fields
    /\ status.last_committed = 1
    /\ status.total_transactions > 0
    /\ ver >= 1

\* The states of a loop in which an update invocation is in flight.
UpdateStates == StorageIO \cup {"write", "assign"}

\* The requests for the write guard that updater u has in the lock's queue.
WriteRequests(u) == {i \in 1..Len(waiters) : waiters[i] = <<"w", u>>}

\* C11: within one loop the fetches never overlap: an update invocation
\* begins only on a tick, with nothing of the previous invocation left (no
\* connection, no request for the lock, no guard), each tick begins exactly
\* one invocation, and an invocation ends only by returning Ok or Err to
\* the loop, which then waits for the next tick.
C11_FetchesDoNotOverlap ==
  [][\A u \in Updaters :
       /\ Cardinality(WriteRequests(u)) <= 1
       /\ (pc'[u] = "access_storage" /\ pc[u] # "access_storage")
          => /\ pc[u] = "tick"
             /\ uow[u] = "none"
             /\ WriteRequests(u) = {}
             /\ wguard # u
             /\ updRet'[u] = "none"
       /\ (pc[u] = "tick" /\ pc'[u] # "tick") => pc'[u] = "access_storage"
       /\ (pc[u] \in UpdateStates /\ pc'[u] \notin UpdateStates)
          => /\ pc'[u] = "tick"
             /\ updRet'[u] \in {"ok", "err"}
             /\ uow'[u] = "none"
             /\ WriteRequests(u) = {}]_vars

\* An invocation that followed a published one is held up at its write by a
\* reader's guard; the loop has not gone on to another tick.
C11_Witness ==
  \E u \in Updaters :
    /\ pc[u] = "write"
    /\ WriteRequests(u) # {}
    /\ rguards # {}
    /\ updRet[u] = "none"
    /\ ver >= 1

\* The units-of-work (connection, or connection with a transaction) open.
OpenUnitsOfWork == {u \in Updaters : uow[u] # "none"}

\* C12: the unit-of-work is closed on every exit path of update: once update
\* has returned (Ok, or Err from access_storage or start_transaction) the
\* invocation holds neither a transaction nor a connection, the transaction
\* is gone (committed or discarded) before the write, and while every loop
\* waits for its tick no unit-of-work is open.
C12_UnitOfWorkClosed ==
  /\ \A u \in Updaters :
       /\ updRet[u] \in {"ok", "err"} => uow[u] = "none"
       /\ pc[u] \notin UpdateStates => uow[u] = "none"
       /\ pc[u] \in {"write", "assign"} => uow[u] # "transaction"
  /\ (\A u \in Updaters : pc[u] \notin UpdateStates)
     => Cardinality(OpenUnitsOfWork) = 0

\* An update returned Err before any sub-query ran, with a committed block
\* in the storage that the cell does not show; the loop waits for its tick
\* and nothing is open.
C12_Witness ==
  \E u \in Updaters :
    /\ pc[u] = "tick"
    /\ updRet[u] = "err"
    /\ ret[u] = NoReturns
    /\ OpenUnitsOfWork = {}
    /\ dbCommitted = 1
    /\ status.last_committed = 0

\* What unwrap_or(0) makes of the return of a sub-query.
AfterFallback(res) == IF res = Err THEN 0 ELSE res

\* C13: the outstanding-proof query of a cycle is issued with the
\* last-verified value of the same cycle after fallback (block 0 when that
\* query failed): it returns Err or the storage's count after that block;
\* the returns of a cycle stay as they are until the write, and the published
\* snapshot has that last_verified and that count (0 on Err).
C13_OutstandingForSameLastVerified ==
  [][\A u \in Updaters :
       /\ (pc[u] = "outstanding_txs" /\ pc'[u] # pc[u])
          => /\ ret[u].last_verified # NotRun
             /\ ret'[u].last_verified = ret[u].last_verified
             /\ ret'[u].outstanding_txs \in
                  {Err, CountOutstandingProofs(AfterFallback(ret[u].last_verified))}
       /\ (pc[u] \in {"commit", "write", "assign"}) => ret'[u] = ret[u]
       /\ (pc[u] = "assign" /\ pc'[u] # pc[u])
          => /\ status' = lastPublished'
             /\ status'.last_verified = AfterFallback(ret[u].last_verified)
             /\ status'.outstanding_txs = AfterFallback(ret[u].outstanding_txs)
             /\ status'.outstanding_txs = 0
                \/ status'.outstanding_txs = ret[u].outstanding_txs]_vars

\* The last-verified query of the published cycle failed while the storage
\* had block 1 verified: the snapshot has last_verified 0 and the count of
\* proofs outstanding after block 0, which is 1.
C13_Witness ==
  /\ ver >= 1
  /\ lastReturns.last_verified = Err
  /\ dbVerified = 1
  /\ status = lastPublished
  /\ status.last_verified = 0
  /\ status.outstanding_txs = 1
  /\ lastReturns.outstanding_txs = 1

\* C14: sub-query failures never prevent publication, however many: a
\* sub-query step, failed or not, goes on to the next query or the commit
\* without update returning, the commit goes on to the write, and the write
\* returns Ok with 0 in every failed field, whatever the cell held; when all
\* five failed the cell is the all-zero snapshot.
C14_AllFailedStillPublishes ==
  [][\A u \in Updaters :
       /\ (pc[u] \in Fields /\ pc'[u] # pc[u])
          => /\ pc'[u] \in Fields \cup {"commit"}
             /\ updRet'[u] = "none"
       /\ (pc[u] = "commit" /\ pc'[u] # pc[u]) => pc'[u] = "write"
       /\ (pc[u] = "assign" /\ pc'[u] # pc[u])
          => /\ pc'[u] = "tick"
             /\ updRet'[u] = "ok"
             /\ \A f \in Failed(ret[u]) : status'[f] = 0
             /\ Failed(ret[u]) = Fields
                => status' = [next_block_at_max |-> -1,
                              last_committed |-> 0,
                              last_verified |-> 0,
                              total_transactions |-> 0,
                              outstanding_txs |-> 0,
                              mempool_size |-> 0]]_vars

\* All five sub-queries of an update failed after an earlier update had
\* published non-zero counters; the update is in its write, with the old
\* total_transactions and mempool_size about to be replaced by 0.
C14_Witness ==
  \E u \in Updaters :
    /\ pc[u] = "assign"
    /\ Failed(ret[u]) = Fields
    /\ ver >= 1
    /\ lastPublished.last_committed = 1
    /\ status.last_committed = 0
    /\ status.total_transactions > 0
    /\ status.mempool_size > 0

\* C15: in every reachable state of the cell, also in the middle of a
\* write and after any sequence of successful, degraded and failed cycles,
\* the stored next_block_at_max is absent.
C15_NextBlockAtMaxAbsent ==
  /\ status.next_block_at_max = -1
  /\ lastPublished.next_block_at_max = -1

\* A degraded cycle (mempool-size query failed) published last_committed 1,
\* and a later cycle failed to open its unit-of-work.
C15_Witness ==
  /\ ver >= 1
  /\ status = lastPublished
  /\ status.last_committed = 1
  /\ lastReturns.mempool_size = Err
  /\ lastReturns.total_transactions > 0
  /\ \E u \in Updaters : pc[u] = "tick" /\ updRet[u] = "err"

\* The sub-queries and the commit attempt of u's invocation have completed.
FetchCompleted(u) ==
  /\ \A f \in Fields : ret[u][f] # NotRun
  /\ commitRes[u] \in {"ok", "err"}

\* C16: the cell changes only through the write of update. A step of
\* read() leaves it as it is; it changes only in the write of an invocation
\* whose five sub-queries and commit attempt have completed; an invocation
\* whose unit-of-work opened can only end through that one write, and one
\* that failed to open ends with the cell untouched; so each write belongs
\* to one cycle whose unit-of-work opened and each such cycle has one write.
\* Before the first write the cell is the default.
C16_OnlyPublishWrites ==
  [][/\ (\E r \in Readers : rpc'[r] # rpc[r]) => status' = status
     /\ status' # status
        => \E u \in Updaters :
             /\ pc[u] \in {"write", "assign"}
             /\ pc'[u] # pc[u]
             /\ FetchCompleted(u)
     /\ \A u \in Updaters :
          /\ (pc[u] \in Fields \cup {"commit"} /\ pc'[u] # pc[u])
             => pc'[u] \in Fields \cup {"commit", "write"}
          /\ (pc[u] = "write" /\ pc'[u] # pc[u]) => pc'[u] = "assign"
          /\ (pc[u] = "assign" /\ pc'[u] # pc[u])
             => /\ pc'[u] = "tick"
                /\ ver' >= 1
                /\ lastPublished' = status'
          /\ (pc[u] \in {"access_storage", "start_transaction"}
              /\ pc'[u] = "tick")
             => /\ status' = status
                /\ ver' = ver
                /\ ret[u] = NoReturns
     /\ (ver = 0 /\ \A u \in Updaters : pc[u] # "assign")
        => status = DefaultStatus]_vars

\* One cycle published, the next failed to open its unit-of-work, and a
\* read() made after that returned: the cell still holds what the one write
\* put there.
C16_Witness ==
  \E r \in Readers, u \in Updaters :
    /\ pc[u] = "tick"
    /\ updRet[u] = "err"
    /\ rpc[r] = "idle"
    /\ result[r] # <<>>
    /\ result[r][1] = status
    /\ status = lastPublished
    /\ status.total_transactions > 0
    /\ ver >= 1

\* The refresh loops that are running: their thread is in the loop, at the
\* timer or inside update.
Running == {u \in Updaters : pc[u] \in {"tick"} \cup UpdateStates}

\* C17 as stated: after any sequence of start_updater_detached calls on
\* clones of one SharedNetworkStatus, at most one refresh loop that can
\* write to the cell is running.
C17_Original == Cardinality(Running) <= 1

\* The updater threads that have panicked.
Panicked == {u \in Updaters : pc[u] = "panicked"}

\* C18: a failure that only affects freshness is never escalated: a message
\* is sent on panic_notify only in the step in which an updater thread
\* panics (its runtime cannot be created), one message per panic; no step in
\* which update returns Err, or a sub-query or the commit fails, sends one.
C18_OnlyPanicsNotify ==
  [][/\ notified' # notified
        => /\ notified' = notified + 1
           /\ \E u \in Updaters : pc[u] = "runtime" /\ pc'[u] = "panicked"
     /\ \A u \in Updaters :
          (\/ updRet'[u] = "err" /\ updRet[u] # "err"
           \/ \E f \in Fields : ret'[u][f] = Err /\ ret[u][f] # Err
           \/ commitRes'[u] = "err" /\ commitRes[u] # "err")
          => notified' = notified
     /\ notified = Cardinality(Panicked)]_vars

\* A cycle with a failed last-verified query published and a later update
\* returned Err; the loop is back at its timer and nothing was sent.
C18_Witness ==
  \E u \in Updaters :
    /\ pc[u] = "tick"
    /\ updRet[u] = "err"
    /\ lastReturns.last_verified = Err
    /\ ver >= 1
    /\ notified = 0

\* C19: publishing always completes: every storage call returning and every
\* reader dropping its guard after the clone, an update whose transaction
\* opened eventually returns Ok with its snapshot in the cell and the loop
\* back at its timer, whatever read() calls keep arriving.
C19_PublishingCompletes ==
  \A u \in Updaters :
    (pc[u] = "last_verified")
      ~> (/\ pc[u] = "tick"
          /\ updRet[u] = "ok"
          /\ wguard = NoOne
          /\ status = Expected(ret[u]))

\* An update is queued for the write guard behind a reader that holds its
\* guard, and the reader has already returned a value before.
C19_Witness ==
  \E u \in Updaters, r \in Readers :
    /\ pc[u] = "write"
    /\ Head(waiters) = <<"w", u>>
    /\ r \in rguards
    /\ rpc[r] = "clone"
    /\ result[r] # <<>>

====
